---- MODULE Spec2Model ----
(***************************************************************************)
(* The execution engine of the agent framework (BaseAgent): its lifecycle  *)
(* state machine, the supervised cycle with retries, timeout and linear    *)
(* backoff, and the metrics accounting.                                     *)
(*                                                                          *)
(* Every async method is cut at its awaits: one action is the code that     *)
(* runs between two suspension points.  The in-flight invocations are the   *)
(* bag `tasks`; a task's pc names the await it is suspended at.  Hooks and  *)
(* event handlers are the awaited collaborators: while a task is suspended  *)
(* at one, any other call (start/stop/pause/resume, a timer tick, another   *)
(* task's continuation) may run, which is what the JavaScript event loop    *)
(* allows.                                                                  *)
(*                                                                          *)
(* Three more specifications follow the engine's: the event bus (EventBus)  *)
(* on its own, SpecEventBus; the fleet manager (AgentManager) with the      *)
(* engines it holds, SpecManager; and the engine with the units of work     *)
(* that lost the race of withTimeout followed, under the fairness of the    *)
(* event loop, SpecTimeout.  Each specification moves its own variables     *)
(* and leaves the others as constructed.                                    *)
(***************************************************************************)
EXTENDS Integers, Sequences, FiniteSets, Bags, TLC

\* ---------------------------------------------------------------- bounds
\* Largest maxRetries a configuration is drawn with.
MaxRetries == 3
\* Cycles one engine begins in a behaviour (caps context.iteration).
MaxIterations == 2
\* Effective start() calls in a behaviour (caps the startedAt stamp).
MaxStarts == 2
\* Invocations in flight at once (suspended async calls).
MaxTasks == 2
\* Largest elapsed time (ms) a cycle records.
MaxDuration == 1
\* The retryDelayMs values a configuration is drawn with.
RetryDelayChoices == {100}
\* Subscriptions one event bus hands out (caps subscriptionCounter).
MaxSubscriptions == 3
\* emit() calls of one event bus in progress at once.
MaxPasses == 1
\* The handler functions subscribers register.
Handlers == {"h1", "h2"}
\* Calls of the manager, and calls of an engine nobody awaits, suspended at
\* once.
MaxCalls == 1
\* Timers the engines of a fleet have armed at once, all together.
MaxTimers == 2
\* Cycles the engines of a fleet begin in a behaviour, all together.
MaxCycles == 2

\* The timeout race is followed for configurations of at most this many
\* attempts per cycle.
MaxTimeouts == 2
\* The engines a fleet is built from, and the ids their configurations carry.
Engines == {"e1", "e2"}
AgentIds == {"a", "b"}

\* ----------------------------------------------------------------- types
AgentStatus == {"idle", "running", "paused", "stopped", "error"}

AgentEvents ==
  [STARTED |-> "agent:started",
   STOPPED |-> "agent:stopped",
   PAUSED |-> "agent:paused",
   RESUMED |-> "agent:resumed",
   ERROR |-> "agent:error",
   EXECUTION_START |-> "agent:execution:start",
   EXECUTION_COMPLETE |-> "agent:execution:complete",
   EXECUTION_FAILED |-> "agent:execution:failed",
   METRICS_UPDATED |-> "agent:metrics:updated"]

\* A value that can be thrown or can reject a promise: an Error object, or
\* anything else (here a string), with its message or its String() form.
Error(message) == [isError |-> TRUE, message |-> message]

Thrown(message) == [isError |-> FALSE, message |-> message]

\* No error: the value of lastError before any failure.
undefined == Thrown("undefined")

\* withTimeout(): `reject(new Error('Execution timeout'))`.
TimeoutError == Error("Execution timeout")

\* How one attempt can be rejected: the unit-of-work throws a value of its
\* own (one that is not an Error object), or the timer of withTimeout wins
\* the race.
Rejections == {Thrown("boom"), TimeoutError}

\* `error instanceof Error ? error : new Error(String(error))`.
toError(error) == IF error.isError THEN error ELSE Error(error.message)

\* The values Context.lastError takes after a failure.
Errors == {toError(r) : r \in Rejections}

createEvent(type, iteration, error) ==
  [type |-> type, iteration |-> iteration, error |-> error]

\* One entry of a task's log: an event it emitted, a hook it invoked, an
\* attempt of the unit-of-work it made, or a backoff wait it began.
LogEntry(what, type, n, error) ==
  [what |-> what, type |-> type, n |-> n, error |-> error]

\* ------------------------------------------------------------- rationals
\* averageExecutionTimeMs is a quotient; it is kept as a reduced fraction so
\* that the running-mean arithmetic is computed, not assumed.
RECURSIVE GCD(_, _)
GCD(a, b) == IF b = 0 THEN a ELSE GCD(b, a % b)

Rat(n, d) ==
  LET g == GCD(n, d)
  IN IF g = 0 THEN [num |-> 0, den |-> 1] ELSE [num |-> n \div g, den |-> d \div g]

RatTimes(r, k) == Rat(r.num * k, r.den)
RatPlus(r, k) == Rat(r.num + k * r.den, r.den)
RatOver(r, k) == Rat(r.num, r.den * k)
RatAdd(r, q) == Rat(r.num * q.den + q.num * r.den, r.den * q.den)

VARIABLES
  status,      \* BaseAgent.status
  config,      \* the part of BaseAgent.config the engine reads
  context,     \* BaseAgent.context: startedAt, iteration, lastError
  metrics,     \* BaseAgent.metrics
  intervalId,  \* TRUE iff BaseAgent.intervalId holds a timer handle
  armed,       \* number of setInterval timers of this engine still armed
  tasks,       \* bag of the invocations suspended at an await
  durSum,      \* history: sum of the durations passed to updateMetrics
  obs          \* what the last step did: the call, the event, the return

vars == <<status, config, context, metrics, intervalId, armed, tasks, durSum, obs>>

VARIABLES
  handlers,             \* EventBus.handlers: event type -> Set of handlers
  wildcardHandlers,     \* EventBus.wildcardHandlers
  subscriptionCounter,  \* EventBus.subscriptionCounter
  subscriptions,        \* the Subscription handles handed out so far
  passes,               \* bag of the emit() calls in progress
  busObs                \* what the last step of the bus did

busVars ==
  <<handlers, wildcardHandlers, subscriptionCounter, subscriptions, passes, busObs>>

\* A JavaScript Set, which iterates in insertion order: a sequence without
\* repetitions.
EmptySet == <<>>

Elements(set) == {set[i] : i \in 1..Len(set)}

SetAdd(set, x) == IF x \in Elements(set) THEN set ELSE Append(set, x)

BusObs(op, type, handler, again, ret) ==
  [op |-> op, type |-> type, handler |-> handler, again |-> again, ret |-> ret]

\* new EventBus()
EventBusInit ==
  /\ handlers = <<>>
  /\ wildcardHandlers = EmptySet
  /\ subscriptionCounter = 0
  /\ subscriptions = {}
  /\ passes = EmptyBag
  /\ busObs = BusObs("new", "none", "none", FALSE, "none")

VARIABLES
  agents,    \* AgentManager.agents: id -> ManagedAgent (agent, intervalMs)
  engines,   \* the BaseAgent objects a fleet is built from
  calls,     \* bag of the manager's and the engines' calls suspended at an await
  mgrObs     \* what the last step of the fleet did

mgrVars == <<agents, engines, calls, mgrObs>>

\* The units of work that lost the race of withTimeout and have not settled
\* yet: nothing holds them, they run on beside the engine.
VARIABLE abandoned

\* A BaseAgent as its constructor leaves it, seen from the manager: the
\* fields its lifecycle methods and tick() read (the context, which they
\* only write, is left out).  `armed` counts
\* the setInterval timers of the engine that are armed, `durSum` is the
\* history of the durations its metrics were updated with.
NewAgent(id) ==
  [id |-> id, status |-> "idle",
   intervalId |-> FALSE, armed |-> 0,
   metrics |-> [totalExecutions |-> 0, successfulExecutions |-> 0,
                failedExecutions |-> 0,
                averageExecutionTimeMs |-> Rat(0, 1)],
   durSum |-> 0]

\* What the last step was: a call (of which method, for which id), a return
\* or a step inside a suspended call; how the call ended ("ok", the error it
\* threw, or "none" while it is suspended); the events emitted; the value
\* returned.
MgrObs(step, op, id, ret, emitted, value) ==
  [step |-> step, op |-> op, id |-> id, ret |-> ret, emitted |-> emitted,
   value |-> value]

\* new AgentManager(), and engines with the ids `ids` gives them.
ManagerInit(ids) ==
  /\ agents = <<>>
  /\ engines = [e \in Engines |-> NewAgent(ids[e])]
  /\ calls = EmptyBag
  /\ mgrObs = MgrObs("new", "none", "none", "none", <<>>, "none")

\* The steps of the engine leave everything else alone.
EngineOnly == UNCHANGED <<busVars, mgrVars, abandoned>>

\* ----------------------------------------------------------------- tasks
NewTask(kind, pc, withInterval, from) ==
  [kind |-> kind, pc |-> pc, interval |-> withInterval, from |-> from,
   iteration |-> 0, attempt |-> 0, lastError |-> undefined,
   success |-> FALSE, executionTimeMs |-> 0, log |-> <<>>]

\* The last step, as an observer of the engine's interface sees it: a call
\* of start/stop/pause/resume or a firing of the timer (and whether it
\* returned at once), the return of a call (and how), or a step inside.
\* `error` is the error an attempt has just raised, or, at a return, the last
\* error the returning call's cycle has seen.
Obs(step, kind, noop, ret, error) ==
  [step |-> step, kind |-> kind, noop |-> noop, ret |-> ret, error |-> error]

Inside == Obs("inside", "none", FALSE, "none", undefined)

Emitted(t, ev) ==
  [t EXCEPT !.log = Append(@, LogEntry("emit", ev.type, ev.iteration, ev.error))]

Hooked(t, hook, error) ==
  [t EXCEPT !.log = Append(@, LogEntry("hook", hook, 0, error))]

InFlight == BagCardinality(tasks)

TaskSet == BagToSet(tasks)

Spawn(t) == tasks (+) SetToBag({t})

Replace(t, u) == (tasks (-) SetToBag({t})) (+) SetToBag({u})

Finish(t) == tasks (-) SetToBag({t})

\* -------------------------------------------------------------- Init
Init ==
  /\ status = "idle"
  /\ config \in [maxRetries : 1..MaxRetries,
                 retryDelayMs : RetryDelayChoices,
                 enabled : BOOLEAN]
  /\ context = [startedAt |-> 0, iteration |-> 0, lastError |-> undefined]
  /\ metrics = [totalExecutions |-> 0, successfulExecutions |-> 0,
                failedExecutions |-> 0,
                averageExecutionTimeMs |-> Rat(0, 1)]
  /\ intervalId = FALSE
  /\ armed = 0
  /\ tasks = EmptyBag
  /\ durSum = 0
  /\ obs = Obs("init", "none", FALSE, "none", undefined)
  /\ abandoned = 0
  /\ EventBusInit
  /\ ManagerInit([e \in Engines |-> "a"])

\* ------------------------------------------------------ the code's tests
\* Mutants of startReturnsEarly: the guard dropped; error treated as running.
startReturnsEarly_never == FALSE

startReturnsEarly_alsoInError == status \in {"running", "error"}

\* start(): `if (this.status === 'running') return;`
startReturnsEarly == status = "running"

\* stop(): `if (this.status === 'stopped') return;`
stopReturnsEarly == status = "stopped"

\* pause(): `if (this.status !== 'running') return;`
pauseReturnsEarly == status # "running"

\* resume(): `if (this.status !== 'paused') return;`
resumeReturnsEarly == status # "paused"

\* Mutant of tickReturnsEarly: the enabled gate forgotten.
tickReturnsEarly_ignoresEnabled == status # "running"

\* tick(): `if (this.status !== 'running' || !this.config.enabled) return;`
tickReturnsEarly == status # "running" \/ ~config.enabled

\* The calls and ticks that change nothing leave all of this alone.
Untouched ==
  UNCHANGED <<status, config, context, metrics, intervalId, armed, tasks, durSum>>

\* Mutant of beginCycle: EXECUTION_START carries the number the iteration
\* had before the increment.
beginCycle_staleIteration(t) ==
  Emitted([t EXCEPT !.pc = "emitExecutionStart",
                    !.iteration = context.iteration + 1,
                    !.attempt = 0,
                    !.lastError = undefined],
          createEvent(AgentEvents.EXECUTION_START, context.iteration, undefined))

\* tick() and executeWithRetry() up to the first await: the iteration is
\* incremented and EXECUTION_START is emitted with the new number.
beginCycle(t) ==
  Emitted([t EXCEPT !.pc = "emitExecutionStart",
                    !.iteration = context.iteration + 1,
                    !.attempt = 0,
                    !.lastError = undefined],
          createEvent(AgentEvents.EXECUTION_START, context.iteration + 1, undefined))

\* ------------------------------------------------------------ lifecycle
\* start(intervalMs) up to `await this.onStart()`.
start(withInterval) ==
  IF startReturnsEarly
  THEN /\ Untouched
       /\ obs' = Obs("call", "start", TRUE, "ok", undefined)
  ELSE /\ context.startedAt < MaxStarts
       /\ InFlight < MaxTasks
       /\ LET t == Hooked(NewTask("start", "onStart", withInterval, status),
                          "onStart", undefined)
          IN /\ tasks' = Spawn(t)
             /\ obs' = Obs("call", "start", FALSE, "none", undefined)
       /\ status' = "running"
       /\ context' = [context EXCEPT !.startedAt = @ + 1]
       /\ UNCHANGED <<config, metrics, intervalId, armed, durSum>>

\* start() from the return of onStart to the await of the STARTED emission.
start_emitStarted(t) ==
  /\ t.kind = "start" /\ t.pc = "onStart"
  /\ LET ev == createEvent(AgentEvents.STARTED, 0, undefined)
         u == Emitted([t EXCEPT !.pc = "emitStarted"], ev)
     IN /\ tasks' = Replace(t, u)
        /\ obs' = Inside
  /\ UNCHANGED <<status, config, context, metrics, intervalId, armed, durSum>>

\* start() after STARTED: arm the periodic trigger when an interval was
\* given, then `await this.tick()`.  A tick that returns early ends start().
start_tick(t) ==
  /\ t.kind = "start" /\ t.pc = "emitStarted"
  /\ intervalId' = (intervalId \/ t.interval)
  /\ armed' = IF t.interval THEN armed + 1 ELSE armed
  /\ IF tickReturnsEarly
     THEN /\ tasks' = Finish(t)
          /\ obs' = Obs("return", "start", FALSE, "ok", t.lastError)
          /\ UNCHANGED context
     ELSE /\ context.iteration < MaxIterations
          /\ LET u == beginCycle(t)
             IN /\ tasks' = Replace(t, u)
                /\ obs' = Inside
          /\ context' = [context EXCEPT !.iteration = @ + 1]
  /\ UNCHANGED <<status, config, metrics, durSum>>

\* stop() up to `await this.onStop()`.
stop ==
  IF stopReturnsEarly
  THEN /\ Untouched
       /\ obs' = Obs("call", "stop", TRUE, "ok", undefined)
  ELSE /\ InFlight < MaxTasks
       /\ armed' = IF intervalId THEN armed - 1 ELSE armed
       /\ intervalId' = FALSE
       /\ status' = "stopped"
       /\ LET t == Hooked(NewTask("stop", "onStop", FALSE, "none"), "onStop", undefined)
          IN /\ tasks' = Spawn(t)
             /\ obs' = Obs("call", "stop", FALSE, "none", undefined)
       /\ UNCHANGED <<config, context, metrics, durSum>>

\* pause() up to `await this.onPause()`.
pause ==
  IF pauseReturnsEarly
  THEN /\ Untouched
       /\ obs' = Obs("call", "pause", TRUE, "ok", undefined)
  ELSE /\ InFlight < MaxTasks
       /\ status' = "paused"
       /\ LET t == Hooked(NewTask("pause", "onPause", FALSE, "none"), "onPause", undefined)
          IN /\ tasks' = Spawn(t)
             /\ obs' = Obs("call", "pause", FALSE, "none", undefined)
       /\ UNCHANGED <<config, context, metrics, intervalId, armed, durSum>>

\* resume() up to `await this.onResume()`.
resume ==
  IF resumeReturnsEarly
  THEN /\ Untouched
       /\ obs' = Obs("call", "resume", TRUE, "ok", undefined)
  ELSE /\ InFlight < MaxTasks
       /\ status' = "running"
       /\ LET t == Hooked(NewTask("resume", "onResume", FALSE, "none"), "onResume", undefined)
          IN /\ tasks' = Spawn(t)
             /\ obs' = Obs("call", "resume", FALSE, "none", undefined)
       /\ UNCHANGED <<config, context, metrics, intervalId, armed, durSum>>

\* The event stop(), pause() and resume() emit once their hook has returned.
lifecycleEvent(kind) ==
  CASE kind = "stop" -> AgentEvents.STOPPED
    [] kind = "pause" -> AgentEvents.PAUSED
    [] kind = "resume" -> AgentEvents.RESUMED

\* stop()/pause()/resume() from the return of the hook to the await of the
\* emission.
lifecycle_emit(t) ==
  /\ t.kind \in {"stop", "pause", "resume"} /\ t.pc \in {"onStop", "onPause", "onResume"}
  /\ LET ev == createEvent(lifecycleEvent(t.kind), 0, undefined)
         u == Emitted([t EXCEPT !.pc = "emitted"], ev)
     IN /\ tasks' = Replace(t, u)
        /\ obs' = Inside
  /\ UNCHANGED <<status, config, context, metrics, intervalId, armed, durSum>>

\* stop()/pause()/resume() return once the emission has settled.
lifecycle_return(t) ==
  /\ t.kind \in {"stop", "pause", "resume"} /\ t.pc = "emitted"
  /\ tasks' = Finish(t)
  /\ obs' = Obs("return", t.kind, FALSE, "ok", t.lastError)
  /\ UNCHANGED <<status, config, context, metrics, intervalId, armed, durSum>>

\* ------------------------------------------------------- periodic trigger
\* One firing of an armed setInterval timer: `() => this.tick()`.
tick ==
  /\ armed > 0
  /\ IF tickReturnsEarly
     THEN /\ Untouched
          /\ obs' = Obs("tick", "tick", TRUE, "ok", undefined)
     ELSE /\ context.iteration < MaxIterations
          /\ InFlight < MaxTasks
          /\ LET t == beginCycle(NewTask("tick", "tick", FALSE, "none"))
             IN /\ tasks' = Spawn(t)
                /\ obs' = Obs("tick", "tick", FALSE, "none", undefined)
          /\ context' = [context EXCEPT !.iteration = @ + 1]
          /\ UNCHANGED <<status, config, metrics, intervalId, armed, durSum>>

\* ------------------------------------------------------ supervised cycle
\* The for-loop's test: `attempt < this.config.maxRetries`.
loopContinues(attempt) == attempt < config.maxRetries

\* Mutant of waitsBeforeRetry: a wait after the last allowed attempt too.
waitsBeforeRetry_always(attempt) == attempt < config.maxRetries

\* `if (attempt < this.config.maxRetries - 1)`: a backoff wait follows.
waitsBeforeRetry(attempt) == attempt < config.maxRetries - 1

\* Mutant of retryDelay: the first retry waits 0.
retryDelay_fromZero(attempt) == config.retryDelayMs * attempt

\* `this.config.retryDelayMs * (attempt + 1)`.
retryDelay(attempt) == config.retryDelayMs * (attempt + 1)

\* Mutant of caught: the timeout's rejection escapes the catch clause.
caught_notTimeout(error) == error \in Rejections \ {TimeoutError}

\* The try block holds the whole `await this.withTimeout(this.execute(...))`:
\* the catch clause receives whatever the attempt raises, the unit-of-work's
\* own error and the timeout alike.
caught(error) == error \in Rejections

\* Mutants of updateMetrics: a failure is not counted; the old mean is
\* weighted by the new count.
updateMetrics_dropsFailure(m, result) ==
  LET total == m.totalExecutions + 1
      totalTime == RatTimes(m.averageExecutionTimeMs, total - 1)
  IN [totalExecutions |-> total,
      successfulExecutions |->
        IF result.success THEN m.successfulExecutions + 1 ELSE m.successfulExecutions,
      failedExecutions |-> m.failedExecutions,
      averageExecutionTimeMs |->
        RatOver(RatPlus(totalTime, result.executionTimeMs), total)]

\* A third mutant of updateMetrics: a failed cycle is not an execution.
updateMetrics_successesOnly(m, result) ==
  LET total == IF result.success THEN m.totalExecutions + 1 ELSE m.totalExecutions
      totalTime == RatTimes(m.averageExecutionTimeMs, m.totalExecutions)
  IN [totalExecutions |-> total,
      successfulExecutions |->
        IF result.success THEN m.successfulExecutions + 1 ELSE m.successfulExecutions,
      failedExecutions |->
        IF result.success THEN m.failedExecutions ELSE m.failedExecutions + 1,
      averageExecutionTimeMs |->
        IF total = 0 THEN Rat(0, 1)
        ELSE RatOver(RatPlus(totalTime, result.executionTimeMs), total)]

updateMetrics_weightsByNewCount(m, result) ==
  LET total == m.totalExecutions + 1
      totalTime == RatTimes(m.averageExecutionTimeMs, total)
  IN [totalExecutions |-> total,
      successfulExecutions |->
        IF result.success THEN m.successfulExecutions + 1 ELSE m.successfulExecutions,
      failedExecutions |->
        IF result.success THEN m.failedExecutions ELSE m.failedExecutions + 1,
      averageExecutionTimeMs |->
        RatOver(RatPlus(totalTime, result.executionTimeMs), total)]

\* updateMetrics(result): the counters and the running mean.
updateMetrics(m, result) ==
  LET total == m.totalExecutions + 1
      totalTime == RatTimes(m.averageExecutionTimeMs, total - 1)
  IN [totalExecutions |-> total,
      successfulExecutions |->
        IF result.success THEN m.successfulExecutions + 1 ELSE m.successfulExecutions,
      failedExecutions |->
        IF result.success THEN m.failedExecutions ELSE m.failedExecutions + 1,
      averageExecutionTimeMs |->
        RatOver(RatPlus(totalTime, result.executionTimeMs), total)]

\* The head of the retry loop for task t, whose loop variable is u.attempt:
\* either the next attempt is started (execute is invoked under withTimeout),
\* or the loop is left: status = error and the error hook is invoked.
loopHead(t, u, o) ==
  IF loopContinues(u.attempt)
  THEN LET v == [u EXCEPT !.pc = "execute",
                          !.log = Append(@, LogEntry("attempt", "execute", u.attempt, undefined))]
       IN /\ tasks' = Replace(t, v)
          /\ obs' = o
          /\ UNCHANGED status
  ELSE LET v == Hooked([u EXCEPT !.pc = "onError"], "onError", u.lastError)
       IN /\ tasks' = Replace(t, v)
          /\ obs' = o
          /\ status' = "error"

\* executeWithRetry() once the EXECUTION_START emission has settled.
executeWithRetry_enterLoop(t) ==
  /\ t.pc = "emitExecutionStart"
  /\ loopHead(t, t, Inside)
  /\ UNCHANGED <<config, context, metrics, intervalId, armed, durSum>>

\* The race of withTimeout is won by the unit-of-work, which resolved.
executeWithRetry_resolved(t, elapsed) ==
  /\ t.pc = "execute"
  /\ LET ev == createEvent(AgentEvents.EXECUTION_COMPLETE, 0, undefined)
         u == Emitted([t EXCEPT !.pc = "emitExecutionComplete",
                                !.success = TRUE,
                                !.executionTimeMs = elapsed], ev)
     IN /\ tasks' = Replace(t, u)
        /\ obs' = Inside
  /\ UNCHANGED <<status, config, context, metrics, intervalId, armed, durSum>>

\* The race of withTimeout is lost: the unit-of-work rejected with its own
\* error, or the timer rejected first with "Execution timeout".
executeWithRetry_rejected(t, error) ==
  /\ t.pc = "execute"
  /\ IF caught(error)
     THEN /\ context' = [context EXCEPT !.lastError = toError(error)]
          /\ LET u == [t EXCEPT !.lastError = toError(error)]
             IN IF waitsBeforeRetry(u.attempt)
                THEN LET v == [u EXCEPT !.pc = "delay",
                                        !.log = Append(@, LogEntry("wait", "delay",
                                                                   retryDelay(u.attempt), undefined))]
                     IN /\ tasks' = Replace(t, v)
                        /\ obs' = Obs("rejected", t.kind, FALSE, "none", error)
                        /\ UNCHANGED status
                ELSE loopHead(t, [u EXCEPT !.attempt = @ + 1],
                              Obs("rejected", t.kind, FALSE, "none", error))
     ELSE \* not caught: the rejection leaves executeWithRetry, tick and start
          /\ tasks' = Finish(t)
          /\ obs' = Obs("return", t.kind, FALSE, "threw", error)
          /\ UNCHANGED <<status, context>>
  /\ UNCHANGED <<config, metrics, intervalId, armed, durSum>>

\* The backoff wait is over: `attempt++` and the loop's test.
executeWithRetry_afterDelay(t) ==
  /\ t.pc = "delay"
  /\ loopHead(t, [t EXCEPT !.attempt = @ + 1], Inside)
  /\ UNCHANGED <<config, context, metrics, intervalId, armed, durSum>>

\* The error hook has returned: emit EXECUTION_FAILED with the last error.
executeWithRetry_emitFailed(t) ==
  /\ t.pc = "onError"
  /\ LET ev == createEvent(AgentEvents.EXECUTION_FAILED, 0, t.lastError)
         u == Emitted([t EXCEPT !.pc = "emitExecutionFailed"], ev)
     IN /\ tasks' = Replace(t, u)
        /\ obs' = Inside
  /\ UNCHANGED <<status, config, context, metrics, intervalId, armed, durSum>>

\* EXECUTION_FAILED has settled: emit ERROR with the last error.
executeWithRetry_emitError(t) ==
  /\ t.pc = "emitExecutionFailed"
  /\ LET ev == createEvent(AgentEvents.ERROR, 0, t.lastError)
         u == Emitted([t EXCEPT !.pc = "emitError"], ev)
     IN /\ tasks' = Replace(t, u)
        /\ obs' = Inside
  /\ UNCHANGED <<status, config, context, metrics, intervalId, armed, durSum>>

\* executeWithRetry() returns its result to tick(), which updates the metrics
\* and emits METRICS_UPDATED.  A failure result takes its elapsed time here;
\* a success result took it before EXECUTION_COMPLETE was emitted.
tick_updateMetrics(t, elapsed) ==
  /\ t.pc \in {"emitExecutionComplete", "emitError"}
  /\ t.pc = "emitExecutionComplete" => elapsed = t.executionTimeMs
  /\ LET ev == createEvent(AgentEvents.METRICS_UPDATED, 0, undefined)
         r == [t EXCEPT !.executionTimeMs = elapsed]
         u == Emitted([r EXCEPT !.pc = "emitMetricsUpdated"], ev)
     IN /\ metrics' = updateMetrics(metrics, r)
        /\ durSum' = durSum + r.executionTimeMs
        /\ tasks' = Replace(t, u)
        /\ obs' = Inside
  /\ UNCHANGED <<status, config, context, intervalId, armed>>

\* METRICS_UPDATED has settled: tick() returns, and with it a start() that
\* awaited it.
tick_return(t) ==
  /\ t.pc = "emitMetricsUpdated"
  /\ tasks' = Finish(t)
  /\ obs' = Obs("return", t.kind, FALSE, "ok", t.lastError)
  /\ UNCHANGED <<status, config, context, metrics, intervalId, armed, durSum>>

\* ------------------------------------------------------------------ Next
Next ==
  \/ EngineOnly /\ \E withInterval \in BOOLEAN : start(withInterval)
  \/ EngineOnly /\ stop
  \/ EngineOnly /\ pause
  \/ EngineOnly /\ resume
  \/ EngineOnly /\ tick
  \/ EngineOnly /\ \E t \in TaskSet : start_emitStarted(t)
  \/ EngineOnly /\ \E t \in TaskSet : start_tick(t)
  \/ EngineOnly /\ \E t \in TaskSet : lifecycle_emit(t)
  \/ EngineOnly /\ \E t \in TaskSet : lifecycle_return(t)
  \/ EngineOnly /\ \E t \in TaskSet : executeWithRetry_enterLoop(t)
  \/ EngineOnly /\ \E t \in TaskSet, elapsed \in 0..MaxDuration : executeWithRetry_resolved(t, elapsed)
  \/ EngineOnly /\ \E t \in TaskSet, error \in Rejections : executeWithRetry_rejected(t, error)
  \/ EngineOnly /\ \E t \in TaskSet : executeWithRetry_afterDelay(t)
  \/ EngineOnly /\ \E t \in TaskSet : executeWithRetry_emitFailed(t)
  \/ EngineOnly /\ \E t \in TaskSet : executeWithRetry_emitError(t)
  \/ EngineOnly /\ \E t \in TaskSet, elapsed \in 0..MaxDuration : tick_updateMetrics(t, elapsed)
  \/ EngineOnly /\ \E t \in TaskSet : tick_return(t)

Spec == Init /\ [][Next]_vars

\* ============================================================ EventBus
\* The event bus on its own.  subscribe, subscribeAll, unsubscribe and clear
\* are synchronous: one action each.  emit() takes its snapshot and calls
\* the handlers one after the other in the same synchronous run, so what
\* can happen between two of these calls is what the handler just called
\* does itself: any of the bus's operations.  A pass is an emit() that has
\* not returned; the steps of the engine above are not part of this
\* specification.

\* The event types events are emitted and subscribed with.
EventTypes == {AgentEvents.STARTED, AgentEvents.STOPPED}

\* What a called handler does: returns, throws, or returns a promise, which
\* is pending and later resolves or rejects.
HandlerCalls == {"returns", "throws", "pending"}

HandlerSettles == {"resolves", "rejects"}

SetDelete_keeps(set, x) == set

\* Set.delete
SetDelete(set, x) == SelectSeq(set, LAMBDA y : y # x)

\* handlers.get(eventType) || new Set()
handlersOf(eventType) ==
  IF eventType \in DOMAIN handlers THEN handlers[eventType] ELSE EmptySet

\* The handle subscribe or subscribeAll returns, and whether its
\* unsubscribe() has been called.
Subscription(id, wildcard, eventType, handler) ==
  [id |-> id, wildcard |-> wildcard, eventType |-> eventType,
   handler |-> handler, unsubscribed |-> FALSE]

subscribe(eventType, handler) ==
  /\ subscriptionCounter < MaxSubscriptions
  /\ subscriptionCounter' = subscriptionCounter + 1
  /\ handlers' = (eventType :> SetAdd(handlersOf(eventType), handler)) @@ handlers
  /\ subscriptions' = subscriptions \cup
       {Subscription(subscriptionCounter', FALSE, eventType, handler)}
  /\ busObs' = BusObs("subscribe", eventType, handler, FALSE, "ok")
  /\ UNCHANGED <<wildcardHandlers, passes>>

subscribeAll(handler) ==
  /\ subscriptionCounter < MaxSubscriptions
  /\ subscriptionCounter' = subscriptionCounter + 1
  /\ wildcardHandlers' = SetAdd(wildcardHandlers, handler)
  /\ subscriptions' = subscriptions \cup
       {Subscription(subscriptionCounter', TRUE, "none", handler)}
  /\ busObs' = BusObs("subscribeAll", "none", handler, FALSE, "ok")
  /\ UNCHANGED <<handlers, passes>>

\* The closure a handle carries: it deletes the handler it was made with
\* from the Set it was added to.
unsubscribe(sub) ==
  /\ sub \in subscriptions
  /\ IF sub.wildcard
       THEN /\ wildcardHandlers' = SetDelete(wildcardHandlers, sub.handler)
            /\ UNCHANGED handlers
       ELSE /\ handlers' =
                 IF sub.eventType \in DOMAIN handlers
                   THEN [handlers EXCEPT ![sub.eventType] = SetDelete(@, sub.handler)]
                   ELSE handlers
            /\ UNCHANGED wildcardHandlers
  /\ subscriptions' = (subscriptions \ {sub}) \cup {[sub EXCEPT !.unsubscribed = TRUE]}
  /\ busObs' = BusObs("unsubscribe", sub.eventType, sub.handler, sub.unsubscribed, "ok")
  /\ UNCHANGED <<subscriptionCounter, passes>>

clear ==
  /\ handlers' = <<>>
  /\ wildcardHandlers' = EmptySet
  /\ busObs' = BusObs("clear", "none", "none", FALSE, "ok")
  /\ UNCHANGED <<subscriptionCounter, subscriptions, passes>>

handlerWrapper_noCatch(did) ==
  CASE did = "pending" -> "pending"
    [] did \in {"returns", "resolves"} -> "fulfilled"
    [] did \in {"throws", "rejects"} -> "rejected"

\* The promise of the async function emit() maps over the handlers, given
\* what the handler did: try { await handler(event) } catch { console.error }.
handlerWrapper(did) ==
  CASE did = "pending" -> "pending"
    [] did \in {"returns", "resolves"} -> "fulfilled"
    [] did \in {"throws", "rejects"} -> "fulfilled"

\* Promise.all over the wrappers' promises.
PromiseAll(did) ==
  LET promises == {handlerWrapper(did[i]) : i \in 1..Len(did)}
  IN  IF "rejected" \in promises THEN "rejected"
      ELSE IF "pending" \in promises THEN "pending"
      ELSE "fulfilled"

\* [...handlers, ...this.wildcardHandlers]
allHandlersOf(eventType) == handlersOf(eventType) \o wildcardHandlers

PassSet == BagToSet(passes)

\* emit(event): the snapshot and, in the same run, the call of the first
\* handler of it.  `did` records, per handler called, what it did last.
emit(eventType, did) ==
  /\ BagCardinality(passes) < MaxPasses
  /\ LET allHandlers == allHandlersOf(eventType)
         p == [type |-> eventType, allHandlers |-> allHandlers,
               did |-> IF allHandlers = <<>> THEN <<>> ELSE <<did>>]
     IN  /\ passes' = passes (+) SetToBag({p})
         /\ busObs' = BusObs("emit", eventType,
                             IF allHandlers = <<>> THEN "none" ELSE allHandlers[1],
                             FALSE, "none")
  /\ UNCHANGED <<handlers, wildcardHandlers, subscriptionCounter, subscriptions>>

\* allHandlers.map: the call of the next handler of the snapshot.
emit_map(p, did) ==
  /\ Len(p.did) < Len(p.allHandlers)
  /\ passes' = (passes (-) SetToBag({p}))
                 (+) SetToBag({[p EXCEPT !.did = Append(@, did)]})
  /\ busObs' = BusObs("call", p.type, p.allHandlers[Len(p.did) + 1], FALSE, "none")
  /\ UNCHANGED <<handlers, wildcardHandlers, subscriptionCounter, subscriptions>>

\* The promise a handler returned settles.
emit_handlerSettles(p, i, did) ==
  /\ i \in 1..Len(p.did)
  /\ p.did[i] = "pending"
  /\ passes' = (passes (-) SetToBag({p}))
                 (+) SetToBag({[p EXCEPT !.did[i] = did]})
  /\ busObs' = BusObs("settle", p.type, p.allHandlers[i], FALSE, "none")
  /\ UNCHANGED <<handlers, wildcardHandlers, subscriptionCounter, subscriptions>>

\* await Promise.all(...): emit() returns, or rejects as Promise.all does.
emit_return(p) ==
  /\ Len(p.did) = Len(p.allHandlers)
  /\ PromiseAll(p.did) # "pending"
  /\ passes' = passes (-) SetToBag({p})
  /\ busObs' = BusObs("return", p.type, "none", FALSE,
                      IF PromiseAll(p.did) = "fulfilled" THEN "ok" ELSE "threw")
  /\ UNCHANGED <<handlers, wildcardHandlers, subscriptionCounter, subscriptions>>

\* The engine of the first part does not take part.
EngineIdle ==
  /\ status = "idle"
  /\ config = [maxRetries |-> 1, retryDelayMs |-> 0, enabled |-> FALSE]
  /\ context = [startedAt |-> 0, iteration |-> 0, lastError |-> undefined]
  /\ metrics = [totalExecutions |-> 0, successfulExecutions |-> 0,
                failedExecutions |-> 0,
                averageExecutionTimeMs |-> Rat(0, 1)]
  /\ intervalId = FALSE
  /\ armed = 0
  /\ tasks = EmptyBag
  /\ durSum = 0
  /\ obs = Obs("init", "none", FALSE, "none", undefined)
  /\ abandoned = 0

EventBusOnly == UNCHANGED <<vars, mgrVars, abandoned>>

InitEventBus == EventBusInit /\ EngineIdle /\ ManagerInit([e \in Engines |-> "a"])

NextEventBus ==
  \/ EventBusOnly /\ \E eventType \in EventTypes, handler \in Handlers :
                       subscribe(eventType, handler)
  \/ EventBusOnly /\ \E handler \in Handlers : subscribeAll(handler)
  \/ EventBusOnly /\ \E sub \in subscriptions : unsubscribe(sub)
  \/ EventBusOnly /\ clear
  \/ EventBusOnly /\ \E eventType \in EventTypes, did \in HandlerCalls :
                       emit(eventType, did)
  \/ EventBusOnly /\ \E p \in PassSet, did \in HandlerCalls : emit_map(p, did)
  \/ EventBusOnly /\ \E p \in PassSet, i \in 1..(2 * Cardinality(Handlers)),
                        did \in HandlerSettles : emit_handlerSettles(p, i, did)
  \/ EventBusOnly /\ \E p \in PassSet : emit_return(p)

SpecEventBus == InitEventBus /\ [][NextEventBus]_busVars


\* ======================================================== AgentManager
\* The fleet manager and the engines it holds.  A call of an engine's
\* start, stop, pause, resume or tick is an `op`: the method, the await it
\* is suspended at (its pc, "done" once it has returned and "failed" once it
\* has rejected) and its locals.  The methods are the ones of the first
\* part, written here as functions of the engine they are called on, since a
\* fleet has several.  The retry loop of a cycle is the single suspension
\* "execute": it ends with the cycle's attempt resolved, or with every
\* attempt failed.  The engines run with the default configuration
\* (enabled), and their hooks may be overridden: an awaited hook returns or
\* throws.

Op(kind, pc, intervalMs) ==
  [kind |-> kind, pc |-> pc, intervalMs |-> intervalMs,
   success |-> FALSE, executionTimeMs |-> 0]

Settled(op) == op.pc \in {"done", "failed"}

\* What a call or a continuation gives: the engine after it, the op, and the
\* events emitted.
Ran(agent, op, emitted) == [agent |-> agent, op |-> op, emitted |-> emitted]

\* BaseAgent.start up to its first await.
Agent_start(agent, intervalMs) ==
  IF agent.status = "running"
    THEN Ran(agent, Op("start", "done", intervalMs), <<>>)
    ELSE Ran([agent EXCEPT !.status = "running"],
             Op("start", "onStart", intervalMs), <<>>)

\* BaseAgent.stop up to its first await.
Agent_stop(agent) ==
  IF agent.status = "stopped"
    THEN Ran(agent, Op("stop", "done", FALSE), <<>>)
    ELSE Ran([agent EXCEPT !.armed = IF agent.intervalId THEN @ - 1 ELSE @,
                           !.intervalId = FALSE,
                           !.status = "stopped"],
             Op("stop", "onStop", FALSE), <<>>)

\* BaseAgent.pause up to its first await.
Agent_pause(agent) ==
  IF agent.status # "running"
    THEN Ran(agent, Op("pause", "done", FALSE), <<>>)
    ELSE Ran([agent EXCEPT !.status = "paused"], Op("pause", "onPause", FALSE), <<>>)

\* BaseAgent.resume up to its first await.
Agent_resume(agent) ==
  IF agent.status # "paused"
    THEN Ran(agent, Op("resume", "done", FALSE), <<>>)
    ELSE Ran([agent EXCEPT !.status = "running"], Op("resume", "onResume", FALSE), <<>>)

\* BaseAgent.tick up to its first await, called by `op` (start) or by the
\* timer: skipped, or the cycle begins.
Agent_tick(agent, op) ==
  IF agent.status # "running"
    THEN Ran(agent, [op EXCEPT !.pc = "done"], <<>>)
    ELSE Ran(agent, [op EXCEPT !.pc = "execute"], <<AgentEvents.EXECUTION_START>>)

\* The method called on the engine, by name.
Agent_call(kind, agent, intervalMs) ==
  CASE kind = "start" -> Agent_start(agent, intervalMs)
    [] kind = "stop" -> Agent_stop(agent)
    [] kind = "pause" -> Agent_pause(agent)
    [] kind = "resume" -> Agent_resume(agent)

\* The event a lifecycle method emits after its hook.
Agent_event(pc) ==
  CASE pc = "onStart" -> AgentEvents.STARTED
    [] pc = "onStop" -> AgentEvents.STOPPED
    [] pc = "onPause" -> AgentEvents.PAUSED
    [] pc = "onResume" -> AgentEvents.RESUMED

Agent_result(op) ==
  [success |-> op.success, executionTimeMs |-> op.executionTimeMs]

\* An op resumes from the await it is suspended at and runs to the next
\* await at which the engine can differ, or to its end: the awaits of emit(),
\* which cannot fail and change nothing of the engine, are passed through,
\* but for the one of STARTED, after which start() arms its timer.  `ok`
\* says how the awaited hook or the cycle's attempts ended, `elapsed` is the
\* time the cycle took.
Agent_continue(agent, op, ok, elapsed) ==
  CASE op.pc \in {"onStop", "onPause", "onResume"} ->
         IF ok
           THEN Ran(agent, [op EXCEPT !.pc = "done"], <<Agent_event(op.pc)>>)
           ELSE Ran(agent, [op EXCEPT !.pc = "failed"], <<>>)
    [] op.pc = "onStart" ->
         IF ok
           THEN Ran(agent, [op EXCEPT !.pc = "emitStarted"], <<Agent_event(op.pc)>>)
           ELSE Ran(agent, [op EXCEPT !.pc = "failed"], <<>>)
    [] op.pc = "emitStarted" ->
         Agent_tick([agent EXCEPT
                       !.intervalId = @ \/ op.intervalMs,
                       !.armed = IF op.intervalMs THEN @ + 1 ELSE @],
                    op)
    [] op.pc = "execute" ->
         IF ok
           THEN LET done == [op EXCEPT !.pc = "emitMetricsUpdated",
                                       !.success = TRUE,
                                       !.executionTimeMs = elapsed]
                IN  Ran([agent EXCEPT
                           !.metrics = updateMetrics(@, Agent_result(done)),
                           !.durSum = @ + elapsed],
                        done,
                        <<AgentEvents.EXECUTION_COMPLETE, AgentEvents.METRICS_UPDATED>>)
           ELSE Ran([agent EXCEPT !.status = "error"],
                    [op EXCEPT !.pc = "onError", !.executionTimeMs = elapsed],
                    <<>>)
    [] op.pc = "onError" ->
         IF ok
           THEN Ran([agent EXCEPT
                       !.metrics = updateMetrics(@, Agent_result(op)),
                       !.durSum = @ + op.executionTimeMs],
                    [op EXCEPT !.pc = "emitMetricsUpdated"],
                    <<AgentEvents.EXECUTION_FAILED, AgentEvents.ERROR,
                      AgentEvents.METRICS_UPDATED>>)
           ELSE Ran(agent, [op EXCEPT !.pc = "failed"], <<>>)
    [] op.pc = "emitMetricsUpdated" ->
         Ran(agent, [op EXCEPT !.pc = "done"], <<>>)

RECURSIVE Total(_, _)
Total(f, S) ==
  IF S = {} THEN 0
  ELSE LET x == CHOOSE y \in S : TRUE IN f[x] + Total(f, S \ {x})

\* A suspended call of the manager, or a call of an engine nobody awaits
\* (pc "detached"): the engines it called and their ops.
Call(kind, id, pc, ops) == [kind |-> kind, id |-> id, pc |-> pc, ops |-> ops]

CallSet == BagToSet(calls)

Suspended == BagCardinality(calls)

Registry == DOMAIN agents

\* The awaits of a cycle.
CycleAwaits ==
  {"execute", "onError", "emitMetricsUpdated"}

\* The cycles the engines have begun: those their metrics count and those
\* in progress.
CyclesBegun ==
  Total([e \in Engines |-> engines[e].metrics.totalExecutions], Engines)
    + Total([c \in CallSet |->
               CopiesIn(c, calls)
                 * Cardinality({e \in DOMAIN c.ops : c.ops[e].pc \in CycleAwaits})],
            CallSet)

\* What keeps the model finite: all together, the engines have at most
\* MaxTimers timers armed at once and begin at most MaxCycles cycles
\* that end in their metrics.  `fleet` is the engines after the step and
\* `begins` says whether the step begins a cycle.
WithinBounds(fleet, begins) ==
  /\ Total([e \in Engines |-> fleet[e].armed], Engines) <= MaxTimers
  /\ begins => CyclesBegun < MaxCycles

\* The engines in the registry: Array.from(this.agents.values()).
Fleet == {agents[id].agent : id \in Registry}

alreadyRegistered_never(id) == FALSE

\* this.agents.has(config.id)
alreadyRegistered(id) == id \in Registry

register(e, intervalMs) ==
  LET id == engines[e].id
  IN  /\ IF alreadyRegistered(id)
           THEN /\ mgrObs' = MgrObs("call", "register", "none", "already registered",
                                    <<>>, "none")
                /\ UNCHANGED agents
           ELSE /\ agents' = (id :> [agent |-> e, intervalMs |-> intervalMs]) @@ agents
                /\ mgrObs' = MgrObs("call", "register", "none", "ok", <<>>, "none")
      /\ UNCHANGED <<engines, calls>>

\* unregister calls stop() and does not await it.
unregister(id) ==
  /\ mgrObs' = MgrObs("call", "unregister", "none", "ok", <<>>, "none")
  /\ IF id \in Registry
       THEN LET e == agents[id].agent
                ran == Agent_stop(engines[e])
            IN  /\ engines' = [engines EXCEPT ![e] = ran.agent]
                /\ IF Settled(ran.op)
                     THEN UNCHANGED calls
                     ELSE /\ Suspended < MaxCalls
                          /\ calls' = calls (+) SetToBag(
                               {Call("unregister", id, "detached", e :> ran.op)})
                /\ agents' = [i \in Registry \ {id} |-> agents[i]]
       ELSE UNCHANGED <<agents, engines, calls>>

managedInterval_none(id) == FALSE

\* managed.intervalMs
managedInterval(id) == agents[id].intervalMs

\* startAgent, stopAgent, pauseAgent and resumeAgent: the lookup, the
\* not-found error, or the engine's method called and awaited.
delegate(kind, id) ==
  IF id \notin Registry
    THEN /\ mgrObs' = MgrObs("call", "none", "none", "not found", <<>>, "none")
         /\ UNCHANGED <<agents, engines, calls>>
    ELSE LET e == agents[id].agent
             ran == Agent_call(kind, engines[e],
                               IF kind = "start" THEN managedInterval(id) ELSE FALSE)
         IN  /\ Suspended < MaxCalls
             /\ engines' = [engines EXCEPT ![e] = ran.agent]
             /\ calls' = calls (+) SetToBag({Call(kind \o "Agent", id, "await", e :> ran.op)})
             /\ mgrObs' = MgrObs("call", kind \o "Agent", id, "none", ran.emitted, "none")
             /\ UNCHANGED agents

startAgent(id) == delegate("start", id)

stopAgent(id) == delegate("stop", id)

pauseAgent(id) == delegate("pause", id)

resumeAgent(id) == delegate("resume", id)

\* The awaited method has returned or rejected: so does the manager's.
delegate_return(c) ==
  /\ c.pc = "await"
  /\ \A e \in DOMAIN c.ops : Settled(c.ops[e])
  /\ calls' = calls (-) SetToBag({c})
  /\ mgrObs' = MgrObs("return", c.kind, c.id,
                      IF \A e \in DOMAIN c.ops : c.ops[e].pc = "done"
                        THEN "ok" ELSE "threw",
                      <<>>, "none")
  /\ UNCHANGED <<agents, engines>>

\* startAll and stopAll up to their first await: the bracketing event.
\* createEvent(type, 'manager', { agentCount: this.agents.size }).
ManagerEvent(type) ==
  [type |-> type, agentId |-> "manager", agentCount |-> Cardinality(Registry)]

startAll ==
  /\ Suspended < MaxCalls
  /\ calls' = calls (+) SetToBag({Call("startAll", "none", "emitBefore", <<>>)})
  /\ mgrObs' = MgrObs("call", "startAll", "none", "none", <<ManagerEvent("manager:starting")>>, "none")
  /\ UNCHANGED <<agents, engines>>

stopAll ==
  /\ Suspended < MaxCalls
  /\ calls' = calls (+) SetToBag({Call("stopAll", "none", "emitBefore", <<>>)})
  /\ mgrObs' = MgrObs("call", "stopAll", "none", "none", <<ManagerEvent("manager:stopping")>>, "none")
  /\ UNCHANGED <<agents, engines>>

\* Array.from(this.agents...).map(async ...): start or stop is called on
\* every engine of the registry, in one synchronous run.
broadcast(c) ==
  /\ c.pc = "emitBefore"
  /\ LET kind == IF c.kind = "startAll" THEN "start" ELSE "stop"
         ran == [e \in Fleet |->
                   Agent_call(kind, engines[e],
                              IF kind = "start"
                                THEN managedInterval(engines[e].id) ELSE FALSE)]
     IN  /\ engines' = [e \in Engines |-> IF e \in Fleet THEN ran[e].agent ELSE engines[e]]
         /\ calls' = (calls (-) SetToBag({c})) (+) SetToBag(
                       {[c EXCEPT !.pc = "awaitAll", !.ops = [e \in Fleet |-> ran[e].op]]})
         /\ mgrObs' = MgrObs("inside", "none", "none", "none", <<>>, "none")
  /\ UNCHANGED agents

broadcastWrapper_noCatch(pc) ==
  CASE pc = "done" -> "fulfilled"
    [] pc = "failed" -> "rejected"
    [] OTHER -> "pending"

\* The promise of the async function mapped over the registry, given the
\* engine's op: try { await managed.agent.start(...) } catch { console.error }.
broadcastWrapper(pc) ==
  CASE pc = "done" -> "fulfilled"
    [] pc = "failed" -> "fulfilled"
    [] OTHER -> "pending"

\* Mutant of broadcastAll: the first wrapper to settle settles the lot.
broadcastAll_any(ops) ==
  LET promises == {broadcastWrapper(ops[e].pc) : e \in DOMAIN ops}
  IN  IF "fulfilled" \in promises \/ promises = {} THEN "fulfilled"
      ELSE IF "rejected" \in promises THEN "rejected"
      ELSE "pending"

\* Promise.all over the wrappers' promises.
broadcastAll(ops) ==
  LET promises == {broadcastWrapper(ops[e].pc) : e \in DOMAIN ops}
  IN  IF "rejected" \in promises THEN "rejected"
      ELSE IF "pending" \in promises THEN "pending"
      ELSE "fulfilled"

\* await Promise.all(...), then the closing event; or the rejection.
broadcast_settled(c) ==
  /\ c.pc = "awaitAll"
  /\ broadcastAll(c.ops) # "pending"
  /\ IF broadcastAll(c.ops) = "fulfilled"
       THEN /\ calls' = (calls (-) SetToBag({c})) (+) SetToBag({[c EXCEPT !.pc = "emitAfter"]})
            /\ mgrObs' = MgrObs("inside", "none", "none", "none",
                                <<ManagerEvent(IF c.kind = "startAll"
                                                 THEN "manager:started"
                                                 ELSE "manager:stopped")>>,
                                "none")
       ELSE /\ calls' = calls (-) SetToBag({c})
            /\ mgrObs' = MgrObs("return", c.kind, "none", "threw", <<>>, "none")
  /\ UNCHANGED <<agents, engines>>

broadcast_return(c) ==
  /\ c.pc = "emitAfter"
  /\ calls' = calls (-) SetToBag({c})
  /\ mgrObs' = MgrObs("return", c.kind, "none", "ok", <<>>, "none")
  /\ UNCHANGED <<agents, engines>>

\* An op of a suspended call resumes.  A detached op that ends leaves
\* nothing behind.
agent_continue(c, e, ok, elapsed) ==
  /\ e \in DOMAIN c.ops
  /\ ~Settled(c.ops[e])
  /\ LET ran == Agent_continue(engines[e], c.ops[e], ok, elapsed)
     IN  /\ WithinBounds([engines EXCEPT ![e] = ran.agent],
                          c.ops[e].pc = "emitStarted" /\ ran.op.pc = "execute")
         /\ engines' = [engines EXCEPT ![e] = ran.agent]
         /\ calls' = IF c.pc = "detached" /\ Settled(ran.op)
                       THEN calls (-) SetToBag({c})
                       ELSE (calls (-) SetToBag({c}))
                              (+) SetToBag({[c EXCEPT !.ops[e] = ran.op]})
         /\ mgrObs' = MgrObs("inside", "none", "none", "none", ran.emitted, "none")
  /\ UNCHANGED agents

\* A timer of an engine fires: setInterval(() => this.tick(), intervalMs).
timer(e) ==
  /\ engines[e].armed > 0
  /\ LET ran == Agent_tick(engines[e], Op("tick", "tick", FALSE))
     IN  /\ WithinBounds(engines, ran.op.pc = "execute")
         /\ UNCHANGED engines
         /\ mgrObs' = MgrObs("call", "tick", "none", "none", ran.emitted, "none")
         /\ IF Settled(ran.op)
              THEN UNCHANGED calls
              ELSE /\ Suspended < MaxCalls
                   /\ calls' = calls (+) SetToBag(
                        {Call("tick", engines[e].id, "detached", e :> ran.op)})
  /\ UNCHANGED agents

\* metrics.reduce(...) over the engines of `fleet`.
RECURSIVE reduce(_, _)
reduce(fleet, acc) ==
  IF fleet = {} THEN acc
  ELSE LET e == CHOOSE x \in fleet : TRUE
           m == engines[e].metrics
       IN  reduce(fleet \ {e},
                  [totalExecutions |-> acc.totalExecutions + m.totalExecutions,
                   successfulExecutions |->
                     acc.successfulExecutions + m.successfulExecutions,
                   failedExecutions |-> acc.failedExecutions + m.failedExecutions,
                   totalTime |->
                     RatAdd(acc.totalTime,
                            RatTimes(m.averageExecutionTimeMs, m.totalExecutions))])

averageOf_unweighted(totals) ==
  IF totals.totalExecutions > 0
    THEN RatOver(totals.totalTime, Cardinality(Fleet))
    ELSE Rat(0, 1)

\* totals.totalExecutions > 0 ? totals.totalTime / totals.totalExecutions : 0
averageOf(totals) ==
  IF totals.totalExecutions > 0
    THEN RatOver(totals.totalTime, totals.totalExecutions)
    ELSE Rat(0, 1)

\* What getAggregatedMetrics returns.
AggregatedMetrics ==
  IF Cardinality(Fleet) = 0
    THEN [totalExecutions |-> 0, successfulExecutions |-> 0,
          failedExecutions |-> 0, averageExecutionTimeMs |-> Rat(0, 1)]
    ELSE LET totals == reduce(Fleet,
                              [totalExecutions |-> 0, successfulExecutions |-> 0,
                               failedExecutions |-> 0, totalTime |-> Rat(0, 1)])
         IN  [totalExecutions |-> totals.totalExecutions,
              successfulExecutions |-> totals.successfulExecutions,
              failedExecutions |-> totals.failedExecutions,
              averageExecutionTimeMs |-> averageOf(totals)]

getAggregatedMetrics ==
  /\ mgrObs' = MgrObs("call", "getAggregatedMetrics", "none", "ok", <<>>, AggregatedMetrics)
  /\ UNCHANGED <<agents, engines, calls>>

ManagerOnly == UNCHANGED <<vars, busVars, abandoned>>

\* The intervalMs an engine is registered with: e1 is periodic, e2 runs
\* one cycle per start.
IntervalOf(e) == e = "e1"

\* The engines' ids: two engines may carry the same one.
IdChoices == {ids \in [Engines -> AgentIds] : ids["e1"] = "a"}

InitManager ==
  /\ \E ids \in IdChoices : ManagerInit(ids)
  /\ EngineIdle
  /\ EventBusInit

NextManager ==
  \/ ManagerOnly /\ \E e \in Engines : register(e, IntervalOf(e))
  \/ ManagerOnly /\ \E id \in AgentIds : unregister(id)
  \/ ManagerOnly /\ \E id \in AgentIds : startAgent(id)
  \/ ManagerOnly /\ \E id \in AgentIds : stopAgent(id)
  \/ ManagerOnly /\ \E id \in AgentIds : pauseAgent(id)
  \/ ManagerOnly /\ \E id \in AgentIds : resumeAgent(id)
  \/ ManagerOnly /\ \E c \in CallSet : delegate_return(c)
  \/ ManagerOnly /\ startAll
  \/ ManagerOnly /\ stopAll
  \/ ManagerOnly /\ \E c \in CallSet : broadcast(c)
  \/ ManagerOnly /\ \E c \in CallSet : broadcast_settled(c)
  \/ ManagerOnly /\ \E c \in CallSet : broadcast_return(c)
  \/ ManagerOnly /\ \E c \in CallSet, e \in Engines, ok \in BOOLEAN,
                       elapsed \in 0..MaxDuration : agent_continue(c, e, ok, elapsed)
  \/ ManagerOnly /\ \E e \in Engines : timer(e)
  \/ ManagerOnly /\ getAggregatedMetrics

SpecManager == InitManager /\ [][NextManager]_mgrVars


\* ------------------------------------------------------ the timeout race
\* The engine once more, with the loser of each race followed: the unit of
\* work whose attempt timed out is still running, and settles later or never.
\* Here the unit-of-work does not fail in time: it resolves before the timer
\* fires, or the timer fires first.  The engine is enabled, is started with
\* or without an interval and is stopped.
timeoutVars == <<vars, abandoned>>

TimeoutOnly == UNCHANGED <<busVars, mgrVars>>

\* Mutant of withTimeout_timerFires: the race has no timer.
withTimeout_noTimer(t) ==
  /\ FALSE
  /\ executeWithRetry_rejected(t, TimeoutError)
  /\ abandoned' = abandoned + 1

\* withTimeout(): the timer fires before the unit-of-work has settled and
\* rejects the race with "Execution timeout"; the unit-of-work is left
\* running.
withTimeout_timerFires(t) ==
  /\ executeWithRetry_rejected(t, TimeoutError)
  /\ abandoned' = abandoned + 1

\* Mutant of execute_settlesLate: a late rejection is recorded as lastError.
execute_settlesLate_recorded(outcome) ==
  /\ abandoned > 0
  /\ abandoned' = abandoned - 1
  /\ context' = [context EXCEPT !.lastError =
                   IF outcome = "rejects" THEN Error("boom") ELSE @]
  /\ obs' = Obs("late", "execute", FALSE, outcome, undefined)
  /\ UNCHANGED <<status, config, metrics, intervalId, armed, tasks, durSum>>

\* A unit-of-work that lost its race settles: Promise.race has settled
\* already and drops the outcome.
execute_settlesLate(outcome) ==
  /\ abandoned > 0
  /\ abandoned' = abandoned - 1
  /\ Untouched
  /\ obs' = Obs("late", "execute", FALSE, outcome, undefined)

\* The start() calls that have not reached their tick() yet.
PendingStarts ==
  BagCardinality([t \in {u \in TaskSet : u.kind = "start" /\ u.pc \in {"onStart", "emitStarted"}}
                    |-> CopiesIn(t, tasks)])

\* A cycle may begin without taking the iteration a start() in progress is
\* going to use.
RoomForCycle == context.iteration + PendingStarts < MaxIterations

Quiet == UNCHANGED abandoned

InitTimeout ==
  /\ Init
  /\ config.maxRetries = MaxTimeouts
  /\ config.enabled

\* The steps that follow the hook and the STARTED emission of a start().
StartSteps ==
  \E t \in TaskSet : start_emitStarted(t) \/ start_tick(t)

\* The steps of a cycle that need no outcome of the unit-of-work: the
\* emissions settle, the timeout timer and the backoff timer fire, the error
\* hook returns.
CycleSteps ==
  \/ Quiet /\ \E t \in TaskSet : executeWithRetry_enterLoop(t)
  \/ \E t \in TaskSet : withTimeout_timerFires(t)
  \/ Quiet /\ \E t \in TaskSet : executeWithRetry_afterDelay(t)
  \/ Quiet /\ \E t \in TaskSet : executeWithRetry_emitFailed(t)
  \/ Quiet /\ \E t \in TaskSet : executeWithRetry_emitError(t)
  \/ Quiet /\ \E t \in TaskSet : tick_updateMetrics(t, MaxDuration)
  \/ Quiet /\ \E t \in TaskSet : tick_return(t)

NextTimeout ==
  \/ TimeoutOnly /\ Quiet /\ \E withInterval \in BOOLEAN :
       start(withInterval) /\ (startReturnsEarly \/ RoomForCycle)
  \/ TimeoutOnly /\ Quiet /\ stop
  \/ TimeoutOnly /\ Quiet /\ tick /\ (tickReturnsEarly \/ RoomForCycle)
  \/ TimeoutOnly /\ Quiet /\ \E t \in TaskSet : start_emitStarted(t)
  \/ TimeoutOnly /\ Quiet /\ \E t \in TaskSet : start_tick(t)
  \/ TimeoutOnly /\ Quiet /\ \E t \in TaskSet : lifecycle_emit(t)
  \/ TimeoutOnly /\ Quiet /\ \E t \in TaskSet : lifecycle_return(t)
  \/ TimeoutOnly /\ Quiet /\ \E t \in TaskSet : executeWithRetry_enterLoop(t)
  \/ TimeoutOnly /\ Quiet /\ \E t \in TaskSet : executeWithRetry_resolved(t, MaxDuration)
  \/ TimeoutOnly /\ \E t \in TaskSet : withTimeout_timerFires(t)
  \/ TimeoutOnly /\ \E outcome \in HandlerSettles : execute_settlesLate(outcome)
  \/ TimeoutOnly /\ Quiet /\ \E t \in TaskSet : executeWithRetry_afterDelay(t)
  \/ TimeoutOnly /\ Quiet /\ \E t \in TaskSet : executeWithRetry_emitFailed(t)
  \/ TimeoutOnly /\ Quiet /\ \E t \in TaskSet : executeWithRetry_emitError(t)
  \/ TimeoutOnly /\ Quiet /\ \E t \in TaskSet : tick_updateMetrics(t, MaxDuration)
  \/ TimeoutOnly /\ Quiet /\ \E t \in TaskSet : tick_return(t)

\* The event loop runs every continuation that is ready: timers fire, the
\* bus's emissions and the hooks return.  Nothing makes the unit-of-work
\* settle.
FairTimeout ==
  /\ WF_timeoutVars(TimeoutOnly /\ Quiet /\ StartSteps)
  /\ WF_timeoutVars(TimeoutOnly /\ CycleSteps)

SpecTimeout == InitTimeout /\ [][NextTimeout]_timeoutVars /\ FairTimeout


\* ------------------------------------------------- reading the task logs
\* The awaits a cycle is suspended at, from EXECUTION_START to the return.
CyclePcs ==
  {"emitExecutionStart", "execute", "delay", "onError", "emitExecutionFailed",
   "emitError", "emitExecutionComplete", "emitMetricsUpdated"}

Cycles == {t \in TaskSet : t.pc \in CyclePcs}

\* The awaits inside the for-loop: the race of the unit-of-work against the
\* timeout, the backoff delay, the EXECUTION_COMPLETE emission.
LoopPcs == {"execute", "delay", "emitExecutionComplete"}

Entries(log, what, type) ==
  {i \in 1..Len(log) : log[i].what = what /\ log[i].type = type}

Count(log, what, type) == Cardinality(Entries(log, what, type))

IsAttemptOrWait(e) == e.what \in {"attempt", "wait"}

\* A task's attempts and backoff waits, in the order they happened.
AttemptsAndWaits(t) == SelectSeq(t.log, IsAttemptOrWait)

\* The cycles whose retry loop ended with every attempt failed.
ExhaustedPcs == {"onError", "emitExecutionFailed", "emitError"}

Exhausted(t) ==
  \/ t.pc \in ExhaustedPcs
  \/ t.pc = "emitMetricsUpdated" /\ ~t.success

Succeeded(t) ==
  \/ t.pc = "emitExecutionComplete"
  \/ t.pc = "emitMetricsUpdated" /\ t.success

\* The tasks this step moved to where they are now (spawned or advanced).
Arrived == {t \in BagToSet(tasks') : CopiesIn(t, tasks') > CopiesIn(t, tasks)}

\* The tasks this step moved on from where they were (advanced or finished).
Departed == {t \in TaskSet : CopiesIn(t, tasks) > CopiesIn(t, tasks')}

\* --------------------------------------------------------------- claims

\* C1: in every reachable state of one engine, whatever the interleaving of
\* lifecycle calls, timer ticks and cycle outcomes,
\* totalExecutions = successfulExecutions + failedExecutions.
C1_TotalIsSuccessPlusFailed ==
  metrics.totalExecutions = metrics.successfulExecutions + metrics.failedExecutions

\* A state where cycles of both outcomes have been counted.
C1_Witness ==
  /\ metrics.successfulExecutions >= 1
  /\ metrics.failedExecutions >= 1

\* C2: a new cycle (from a periodic tick or from start) never begins while
\* a previous cycle of the engine is still inside its retry loop.
C2_SingleOutstandingCycle ==
  [][context'.iteration > context.iteration
       => ~ \E t \in TaskSet : t.pc \in LoopPcs]_vars

\* C3: a tick performs a cycle iff status = running and enabled hold when it
\* fires: then iteration is incremented and the cycle begins by emitting
\* EXECUTION_START; otherwise nothing changes (no event, no metric, no
\* iteration).  So a tick in a paused engine never advances iteration, and a
\* tick that follows an effective resume() does.
C3_TickStep ==
  obs'.step = "tick" =>
    /\ IF status = "running" /\ config.enabled
       THEN /\ ~obs'.noop
            /\ context'.iteration = context.iteration + 1
            /\ \E t \in Arrived :
                 /\ t.pc = "emitExecutionStart"
                 /\ t.iteration = context'.iteration
                 /\ t.log = <<LogEntry("emit", AgentEvents.EXECUTION_START,
                                       context'.iteration, undefined)>>
       ELSE /\ obs'.noop
            /\ UNCHANGED <<status, config, context, metrics, intervalId, armed,
                           tasks, durSum>>
    /\ status = "paused" => context'.iteration = context.iteration
    /\ (obs.step = "call" /\ obs.kind = "resume" /\ ~obs.noop /\ config.enabled)
         => context'.iteration = context.iteration + 1

C3_TickRunsIffEligible == [][C3_TickStep]_vars

\* A paused engine whose timer fired to no effect, while a cycle begun by an
\* earlier tick is still in flight.
C3_Witness ==
  /\ obs.step = "tick" /\ obs.noop
  /\ status = "paused"
  /\ \E t \in Cycles : t.kind = "tick"

\* C4: a cycle whose attempts all fail makes exactly maxRetries attempts,
\* emits one EXECUTION_START, waits maxRetries - 1 backoff delays, then sets
\* status = error, invokes the error hook once with the last error and emits
\* one EXECUTION_FAILED and then one ERROR, both carrying the last error.
C4_ExhaustedLog(t) ==
  LET n == Len(t.log)
      behind == CASE t.pc = "onError" -> 1
                  [] t.pc = "emitExecutionFailed" -> 2
                  [] t.pc = "emitError" -> 3
                  [] OTHER -> 4
  IN /\ t.lastError \in Errors
     /\ Count(t.log, "attempt", "execute") = config.maxRetries
     /\ Count(t.log, "wait", "delay") = config.maxRetries - 1
     /\ Count(t.log, "emit", AgentEvents.EXECUTION_START) = 1
     /\ Count(t.log, "emit", AgentEvents.EXECUTION_COMPLETE) = 0
     /\ Count(t.log, "hook", "onError") = 1
     /\ Count(t.log, "emit", AgentEvents.EXECUTION_FAILED) = IF behind >= 2 THEN 1 ELSE 0
     /\ Count(t.log, "emit", AgentEvents.ERROR) = IF behind >= 3 THEN 1 ELSE 0
     \* the last attempt, with no wait behind it, then hook, FAILED, ERROR
     /\ t.log[n - behind] = LogEntry("attempt", "execute", config.maxRetries - 1, undefined)
     /\ t.log[n - behind + 1] = LogEntry("hook", "onError", 0, t.lastError)
     /\ behind >= 2 =>
          t.log[n - behind + 2] = LogEntry("emit", AgentEvents.EXECUTION_FAILED, 0, t.lastError)
     /\ behind >= 3 =>
          t.log[n - behind + 3] = LogEntry("emit", AgentEvents.ERROR, 0, t.lastError)

C4_Step ==
  \* leaving the loop sets status = error
  /\ \A t \in Arrived : t.pc = "onError" => status' = "error"
  \* the last error is the error of the latest rejected attempt ...
  /\ obs'.step = "rejected" =>
       /\ context'.lastError.isError
       /\ context'.lastError.message = obs'.error.message
       /\ \E t \in Arrived : t.lastError = context'.lastError
  \* ... and no other step of a cycle changes it
  /\ (obs'.step = "inside" /\ Departed # {}) =>
       \A t \in Arrived : \E d \in Departed :
          d.pc \in CyclePcs => t.lastError = d.lastError

C4_AllAttemptsFail ==
  /\ [](\A t \in Cycles : Exhausted(t) => C4_ExhaustedLog(t))
  /\ [][C4_Step]_vars

\* A cycle of the largest maxRetries whose last attempt timed out, after ERROR.
C4_Witness ==
  \E t \in Cycles :
    /\ t.pc = "emitError"
    /\ config.maxRetries = MaxRetries
    /\ t.lastError = TimeoutError
    /\ status = "error"

\* C5: the first attempt is never preceded by a wait; the wait after failed
\* attempt k is retryDelayMs * (k + 1); no wait follows the last allowed
\* attempt; a success ends the loop at once with one EXECUTION_COMPLETE and
\* successfulExecutions + 1.
C5_CycleLog(t) ==
  LET aw == AttemptsAndWaits(t)
  IN /\ \A i \in 1..Len(aw) :
          aw[i] = IF i % 2 = 1
                  THEN LogEntry("attempt", "execute", (i - 1) \div 2, undefined)
                  ELSE LogEntry("wait", "delay", config.retryDelayMs * (i \div 2), undefined)
     /\ Len(aw) <= 2 * config.maxRetries - 1
     /\ t.pc = "emitExecutionStart" => aw = <<>>
     /\ t.pc = "delay" <=> (Len(aw) > 0 /\ Len(aw) % 2 = 0)
     /\ Succeeded(t) =>
          /\ Len(aw) = 2 * t.attempt + 1
          /\ Count(t.log, "emit", AgentEvents.EXECUTION_COMPLETE) = 1
          /\ Count(t.log, "emit", AgentEvents.EXECUTION_FAILED) = 0
          /\ Count(t.log, "emit", AgentEvents.ERROR) = 0
          /\ Count(t.log, "hook", "onError") = 0

C5_Step ==
  \A t \in Arrived :
    (t.pc = "emitMetricsUpdated" /\ t.success) =>
      /\ metrics'.successfulExecutions = metrics.successfulExecutions + 1
      /\ metrics'.failedExecutions = metrics.failedExecutions

C5_LinearBackoff ==
  /\ [](\A t \in Cycles : C5_CycleLog(t))
  /\ [][C5_Step]_vars

\* maxRetries = 3, retryDelayMs = 100: two failures, then a success on the
\* third attempt, after waits of 100 and 200.
C5_Witness ==
  \E t \in Cycles :
    /\ t.pc = "emitMetricsUpdated" /\ t.success
    /\ config.maxRetries = 3 /\ config.retryDelayMs = 100
    /\ AttemptsAndWaits(t) =
         <<LogEntry("attempt", "execute", 0, undefined),
           LogEntry("wait", "delay", 100, undefined),
           LogEntry("attempt", "execute", 1, undefined),
           LogEntry("wait", "delay", 200, undefined),
           LogEntry("attempt", "execute", 2, undefined)>>
    /\ metrics.successfulExecutions = 1

\* C6: after N completed cycles averageExecutionTimeMs is the arithmetic mean
\* of the N recorded durations: average = durSum / N, whatever the outcomes
\* and the order of completion.
C6_AverageIsMean ==
  /\ metrics.averageExecutionTimeMs.den >= 1
  /\ metrics.averageExecutionTimeMs.num * metrics.totalExecutions =
       durSum * metrics.averageExecutionTimeMs.den
  /\ metrics.totalExecutions = 0 => metrics.averageExecutionTimeMs = Rat(0, 1)

\* Two cycles, one success and one failure, whose mean is not an integer.
C6_Witness ==
  /\ metrics.totalExecutions = 2
  /\ metrics.successfulExecutions = 1
  /\ metrics.averageExecutionTimeMs = Rat(1, 2)

\* C7: a lifecycle call whose guard fails (start while running, stop while
\* stopped, pause while not running, resume while not paused) is a no-op:
\* status, startedAt, the trigger, iteration and metrics are unchanged, no
\* hook is invoked, no event emitted (no task is spawned or advanced) and no
\* cycle started.
C7_GuardFails ==
  \/ obs'.kind = "start" /\ status = "running"
  \/ obs'.kind = "stop" /\ status = "stopped"
  \/ obs'.kind = "pause" /\ status # "running"
  \/ obs'.kind = "resume" /\ status # "paused"

C7_Step ==
  (obs'.step = "call" /\ C7_GuardFails) =>
    /\ obs'.noop /\ obs'.ret = "ok"
    /\ UNCHANGED <<status, config, context, metrics, intervalId, armed, tasks, durSum>>

C7_GuardedCallsAreNoOps == [][C7_Step]_vars

\* start() returned at once in a running engine whose trigger is armed and
\* whose cycle is in flight.
C7_Witness ==
  /\ obs.step = "call" /\ obs.kind = "start" /\ obs.noop
  /\ status = "running"
  /\ armed > 0
  /\ Cycles # {}

\* C8: once stop() has completed and until start() is called again, no
\* periodic trigger of the engine remains armed.
C8_StoppedMeansDisarmed ==
  (/\ status = "stopped"
   /\ ~ \E t \in TaskSet : t.kind \in {"stop", "start"})
    => armed = 0

\* C9: an engine in status error remains controllable: start() sets status
\* = running, emits STARTED and performs a cycle; stop() sets status =
\* stopped and emits STOPPED.  No status is absorbing: start() leaves every
\* status but running, stop() leaves running.
C9_Step ==
  /\ (obs'.step = "call" /\ obs'.kind = "start" /\ status # "running") =>
       /\ status' = "running"
       /\ \E t \in Arrived : t.kind = "start" /\ t.pc = "onStart" /\ t.from = status
  /\ (obs'.step = "call" /\ obs'.kind = "stop" /\ status # "stopped") =>
       /\ status' = "stopped"
       /\ \E t \in Arrived : t.kind = "stop" /\ t.pc = "onStop"
  \* the start() goes on to its cycle when the engine is still running
  /\ \A d \in Departed :
       (d.kind = "start" /\ d.pc = "emitStarted" /\ status = "running" /\ config.enabled) =>
          /\ context'.iteration = context.iteration + 1
          /\ \E t \in Arrived : t.kind = "start" /\ t.pc = "emitExecutionStart"

C9_Logs ==
  \A t \in TaskSet :
    /\ (t.kind = "start" /\ t.pc # "onStart") =>
         /\ Count(t.log, "emit", AgentEvents.STARTED) = 1
         /\ t.log[2] = LogEntry("emit", AgentEvents.STARTED, 0, undefined)
    /\ (t.kind = "stop" /\ t.pc = "emitted") =>
         t.log = <<LogEntry("hook", "onStop", 0, undefined),
                   LogEntry("emit", AgentEvents.STOPPED, 0, undefined)>>

C9_ErrorIsControllable ==
  /\ []C9_Logs
  /\ [][C9_Step]_vars

\* A start() called in status error that has emitted STARTED and begun its
\* cycle.
C9_Witness ==
  \E t \in Cycles :
    /\ t.kind = "start" /\ t.from = "error"
    /\ Count(t.log, "emit", AgentEvents.STARTED) = 1
    /\ Count(t.log, "emit", AgentEvents.EXECUTION_START) = 1
    /\ status = "running"

\* C10: a failure of the unit-of-work, error or timeout, never reaches the
\* caller of start(): start() returns normally, and the failure shows in
\* Context.lastError (and, for a cycle that failed, in failedExecutions and
\* in the EXECUTION_FAILED and ERROR events).
C10_StartNeverThrows ==
  /\ (obs.step = "return" /\ obs.kind = "start") => obs.ret = "ok"
  /\ obs.ret # "threw"
  /\ (obs.step = "return" /\ obs.error # undefined) => context.lastError \in Errors
  /\ \A t \in Cycles :
       /\ t.lastError # undefined => context.lastError \in Errors
       /\ (t.pc = "emitMetricsUpdated" /\ ~t.success) =>
            /\ metrics.failedExecutions >= 1
            /\ Count(t.log, "emit", AgentEvents.EXECUTION_FAILED) = 1
            /\ Count(t.log, "emit", AgentEvents.ERROR) = 1

\* start() has returned normally from a cycle whose last attempt timed out
\* and which ended in failure.
C10_Witness ==
  /\ obs.step = "return" /\ obs.kind = "start" /\ obs.ret = "ok"
  /\ obs.error = TimeoutError
  /\ metrics.failedExecutions >= 1
  /\ status = "error"

\* ------------------------------------------------ claims of the event bus
\* The passes a step begins, and those it ends.
ArrivedPasses == {p \in BagToSet(passes') : CopiesIn(p, passes') > CopiesIn(p, passes)}

DepartedPasses == {p \in PassSet : CopiesIn(p, passes) > CopiesIn(p, passes')}

\* The handlers registered for an event type: the specific ones and the
\* wildcard ones.
Registered(eventType) ==
  Elements(handlersOf(eventType)) \cup Elements(wildcardHandlers)

C11_Step ==
  /\ busObs'.op = "emit" =>
       \E p \in ArrivedPasses :
         /\ p.type = busObs'.type
         /\ Elements(p.allHandlers) = Registered(p.type)
  /\ busObs'.op = "return" =>
       /\ busObs'.ret = "ok"
       /\ \A p \in DepartedPasses : Len(p.did) = Len(p.allHandlers)

\* C11: emit(event) never fails towards its caller, and every handler
\* registered for event.type or as a wildcard when emit is called is in the
\* pass and has been called when emit returns, whichever of them threw or
\* rejected.
C11_EmitIsolatesHandlerFailures == [][C11_Step]_busVars

\* A pass over three handlers of which the first threw and the second
\* rejected: all three have been called and emit's Promise.all is fulfilled.
C11_Witness ==
  \E p \in PassSet :
    /\ Len(p.allHandlers) >= 3
    /\ Len(p.did) = Len(p.allHandlers)
    /\ p.did[1] = "throws"
    /\ p.did[2] = "rejects"
    /\ p.did[3] \in {"returns", "resolves"}
    /\ PromiseAll(p.did) = "fulfilled"

\* C12: calling unsubscribe() on a handle whose unsubscribe() has been
\* called before changes no registration of the bus.
C12_SecondUnsubscribeIsNoOp ==
  [][(busObs'.op = "unsubscribe" /\ busObs'.again) =>
       (handlers' = handlers /\ wildcardHandlers' = wildcardHandlers)]_busVars

\* A handler has a live subscription for an event type: a handle for that
\* type or a wildcard handle, made with it, whose unsubscribe() was never
\* called.
Live(handler, eventType) ==
  \E sub \in subscriptions :
    /\ ~sub.unsubscribed
    /\ sub.handler = handler
    /\ sub.wildcard \/ sub.eventType = eventType

C13_Step ==
  /\ busObs'.op = "unsubscribe" => passes' = passes
  /\ busObs'.op = "emit" =>
       \A p \in ArrivedPasses : \A h \in Elements(p.allHandlers) : Live(h, p.type)
  /\ busObs'.op = "return" => busObs'.ret = "ok"

\* C13: unsubscribe() during a pass leaves the pass as it is (the pass
\* still calls its snapshot and returns normally), and every emit called
\* after unsubscribe() has returned calls a handler only on account of a
\* subscription that was not unsubscribed.
C13_UnsubscribeDuringEmit == [][C13_Step]_busVars

\* unsubscribe() has just returned for a handler that a pass in progress
\* has in its snapshot and has not called yet.
C13_Witness ==
  /\ busObs.op = "unsubscribe"
  /\ ~busObs.again
  /\ \E p \in PassSet :
       /\ Len(p.did) >= 1
       /\ \E i \in (Len(p.did) + 1)..Len(p.allHandlers) :
            p.allHandlers[i] = busObs.handler
       /\ ~Live(busObs.handler, p.type)

\* C14: one emit calls no handler twice.
C14_AtMostOncePerEmit ==
  \A p \in PassSet :
    \A i, j \in 1..Len(p.did) :
      p.allHandlers[i] = p.allHandlers[j] => i = j

\* ------------------------------------------------ claims of the manager
\* The suspended calls a step begins, and those it ends.
ArrivedCalls == {c \in BagToSet(calls') : CopiesIn(c, calls') > CopiesIn(c, calls)}

DepartedCalls == {c \in CallSet : CopiesIn(c, calls) > CopiesIn(c, calls')}

C15_Step ==
  (mgrObs'.step = "call" /\ mgrObs'.op = "register") =>
    IF mgrObs'.ret = "already registered"
      THEN UNCHANGED <<agents, engines, calls>>
      ELSE /\ mgrObs'.ret = "ok"
           /\ \A id \in Registry : id \in DOMAIN agents' /\ agents'[id] = agents[id]
           /\ Cardinality(DOMAIN agents') = Cardinality(Registry) + 1
           /\ UNCHANGED <<engines, calls>>

\* C15: a register() call either adds an id that was not registered, or
\* fails with the duplicate-id error and changes nothing: every id keeps
\* its engine and its interval, the count is the same, no engine changes.
C15_DuplicateRegisterChangesNothing == [][C15_Step]_mgrVars

\* register() has just failed on an id whose registered engine is running
\* while another engine carries the same id.
C15_Witness ==
  /\ mgrObs.op = "register"
  /\ mgrObs.ret = "already registered"
  /\ \E id \in Registry :
       /\ engines[agents[id].agent].status = "running"
       /\ agents[id].intervalMs
       /\ \E e \in Engines : e # agents[id].agent /\ engines[e].id = id

PassThrough == {"startAgent", "stopAgent", "pauseAgent", "resumeAgent"}

MethodOf(op) ==
  CASE op = "startAgent" -> "start"
    [] op = "stopAgent" -> "stop"
    [] op = "pauseAgent" -> "pause"
    [] op = "resumeAgent" -> "resume"

C16_Step ==
  /\ (mgrObs'.step = "call" /\ mgrObs'.ret = "not found") =>
       /\ mgrObs'.emitted = <<>>
       /\ UNCHANGED <<agents, engines, calls>>
  /\ (mgrObs'.step = "call" /\ mgrObs'.op \in PassThrough) =>
       /\ mgrObs'.id \in Registry
       /\ LET id == mgrObs'.id
              e == agents[id].agent
              ran == Agent_call(MethodOf(mgrObs'.op), engines[e],
                                IF mgrObs'.op = "startAgent"
                                  THEN agents[id].intervalMs ELSE FALSE)
          IN  /\ engines' = [engines EXCEPT ![e] = ran.agent]
              /\ mgrObs'.emitted = ran.emitted
              /\ \E c \in ArrivedCalls :
                   /\ c.kind = mgrObs'.op
                   /\ c.id = id
                   /\ c.ops = (e :> ran.op)
       /\ UNCHANGED agents
  /\ (mgrObs'.step = "return" /\ mgrObs'.op \in PassThrough) =>
       /\ \E c \in DepartedCalls :
            /\ c.kind = mgrObs'.op
            /\ \A e \in DOMAIN c.ops :
                 /\ Settled(c.ops[e])
                 /\ mgrObs'.ret = "ok" <=> c.ops[e].pc = "done"
       /\ UNCHANGED <<agents, engines>>

\* C16: startAgent, stopAgent, pauseAgent and resumeAgent fail with the
\* not-found error and change nothing when the id is not registered;
\* otherwise the step of the call is the step of the engine's own method
\* (start with the registered interval), the manager's call is suspended on
\* it, and it returns only once the engine's method has returned or
\* rejected, as that method did.
C16_PassThrough == [][C16_Step]_mgrVars

\* startAgent has returned for an engine registered with an interval: the
\* engine has armed its timer and has run its first cycle.
C16_Witness ==
  /\ mgrObs.step = "return"
  /\ mgrObs.op = "startAgent"
  /\ mgrObs.ret = "ok"
  /\ mgrObs.id \in Registry
  /\ LET agent == engines[agents[mgrObs.id].agent]
     IN  /\ agents[mgrObs.id].intervalMs
         /\ agent.armed = 1
         /\ agent.status = "running"
         /\ agent.metrics.totalExecutions = 1

C17_Step ==
  /\ \A c \in DepartedCalls :
       c.pc = "emitBefore" =>
         \E b \in ArrivedCalls :
           /\ b.kind = c.kind
           /\ b.pc = "awaitAll"
           /\ DOMAIN b.ops = Fleet
           /\ \A e \in Fleet :
                LET ran == Agent_call(IF c.kind = "startAll" THEN "start" ELSE "stop",
                                      engines[e],
                                      IF c.kind = "startAll"
                                        THEN agents[engines[e].id].intervalMs
                                        ELSE FALSE)
                IN  engines'[e] = ran.agent /\ b.ops[e] = ran.op
  /\ (mgrObs'.step = "return" /\ mgrObs'.op \in {"startAll", "stopAll"}) =>
       /\ mgrObs'.ret = "ok"
       /\ \A c \in DepartedCalls : \A e \in DOMAIN c.ops : Settled(c.ops[e])

\* C17: the broadcast of startAll (stopAll) calls start (stop) on every
\* engine that is in the registry when the calls are made, and
\* startAll (stopAll) returns normally once every one of these calls has
\* returned or rejected.
C17_BroadcastSurvivesFailures == [][C17_Step]_mgrVars

\* A startAll over two engines about to return: the start of e1 rejected,
\* the start of e2 returned after its cycle.
C17_Witness ==
  \E c \in CallSet :
    /\ c.kind = "startAll"
    /\ c.pc = "emitAfter"
    /\ DOMAIN c.ops = Engines
    /\ c.ops["e1"].pc = "failed"
    /\ c.ops["e2"].pc = "done"
    /\ engines["e2"].metrics.totalExecutions >= 1

\* The sum of a field over the engines of the registry.
FleetSum(field) ==
  Total([e \in Engines |-> IF e \in Fleet THEN field[e] ELSE 0], Engines)

\* C18: getAggregatedMetrics returns the sums of the three counts over the
\* engines of the registry and the mean duration of all their executions
\* (the executions-weighted mean of their averages), and zeros when there
\* is no engine or no execution.
C18_AggregatedMetrics ==
  LET r == AggregatedMetrics
      total == FleetSum([e \in Engines |-> engines[e].metrics.totalExecutions])
  IN  /\ r.totalExecutions = total
      /\ r.successfulExecutions =
           FleetSum([e \in Engines |-> engines[e].metrics.successfulExecutions])
      /\ r.failedExecutions =
           FleetSum([e \in Engines |-> engines[e].metrics.failedExecutions])
      /\ \A e \in Engines :
           RatTimes(engines[e].metrics.averageExecutionTimeMs,
                    engines[e].metrics.totalExecutions) = Rat(engines[e].durSum, 1)
      /\ IF total = 0
           THEN r.averageExecutionTimeMs = Rat(0, 1)
           ELSE r.averageExecutionTimeMs =
                  Rat(FleetSum([e \in Engines |-> engines[e].durSum]), total)
      /\ mgrObs.op = "getAggregatedMetrics" => (mgrObs.ret = "ok" /\ mgrObs.value = r)

\* getAggregatedMetrics has returned for a fleet of two: e1 with two
\* executions of mean 1/2, e2 with none.  The weighted mean is 1/2 (the mean
\* of the two averages would be 1/4).
C18_Witness ==
  /\ mgrObs.op = "getAggregatedMetrics"
  /\ Fleet = Engines
  /\ engines["e1"].metrics.totalExecutions = 2
  /\ engines["e1"].metrics.averageExecutionTimeMs = Rat(1, 2)
  /\ engines["e2"].metrics.totalExecutions = 0
  /\ mgrObs.value.totalExecutions = 2
  /\ mgrObs.value.averageExecutionTimeMs = Rat(1, 2)

\* C19: when unregister(id) of a registered engine returns, the id and only
\* the id has left the registry, the engine's status is stopped and no
\* timer of the engine is armed.
C19_UnregisterStopsAndRemoves ==
  [][(mgrObs'.op = "unregister" /\ DOMAIN agents' # Registry) =>
       \E id \in Registry :
         /\ DOMAIN agents' = Registry \ {id}
         /\ mgrObs'.ret = "ok"
         /\ engines'[agents[id].agent].status = "stopped"
         /\ engines'[agents[id].agent].armed = 0]_mgrVars

\* ------------------------------------------------- claims of the engine
\* C20: status becomes error only from running.
C20_ErrorOnlyFromRunning ==
  [][(status' = "error" /\ status # "error") => status = "running"]_vars

\* The events of one cycle, as the task that ran it emitted them.
CycleEventTypes ==
  {AgentEvents.EXECUTION_START, AgentEvents.EXECUTION_COMPLETE,
   AgentEvents.EXECUTION_FAILED, AgentEvents.ERROR, AgentEvents.METRICS_UPDATED}

IsCycleEmit(e) == e.what = "emit" /\ e.type \in CycleEventTypes

CycleEmits(t) == SelectSeq(t.log, IsCycleEmit)

TypesOf(s) == [i \in 1..Len(s) |-> s[i].type]

\* What a cycle has emitted by the time it is suspended at each await.
C21_EmittedSoFar(t) ==
  CASE t.pc \in {"emitExecutionStart", "execute", "delay", "onError"} ->
         <<AgentEvents.EXECUTION_START>>
    [] t.pc = "emitExecutionComplete" ->
         <<AgentEvents.EXECUTION_START, AgentEvents.EXECUTION_COMPLETE>>
    [] t.pc = "emitExecutionFailed" ->
         <<AgentEvents.EXECUTION_START, AgentEvents.EXECUTION_FAILED>>
    [] t.pc = "emitError" ->
         <<AgentEvents.EXECUTION_START, AgentEvents.EXECUTION_FAILED,
           AgentEvents.ERROR>>
    [] t.pc = "emitMetricsUpdated" /\ t.success ->
         <<AgentEvents.EXECUTION_START, AgentEvents.EXECUTION_COMPLETE,
           AgentEvents.METRICS_UPDATED>>
    [] t.pc = "emitMetricsUpdated" /\ ~t.success ->
         <<AgentEvents.EXECUTION_START, AgentEvents.EXECUTION_FAILED,
           AgentEvents.ERROR, AgentEvents.METRICS_UPDATED>>

C21_Order ==
  \A t \in Cycles :
    /\ TypesOf(CycleEmits(t)) = C21_EmittedSoFar(t)
    /\ CycleEmits(t)[1].n = t.iteration

C21_Step ==
  /\ \A t \in Arrived :
       t.pc = "emitExecutionStart" =>
         /\ context'.iteration = context.iteration + 1
         /\ t.iteration = context'.iteration
         /\ metrics' = metrics
  /\ context'.iteration # context.iteration =>
       \E t \in Arrived : t.pc = "emitExecutionStart"
  /\ \A t \in Arrived :
       t.pc = "emitMetricsUpdated" =>
         /\ metrics'.totalExecutions = metrics.totalExecutions + 1
         /\ \E u \in Departed : u.pc \in {"emitExecutionComplete", "emitError"}
  /\ metrics' # metrics =>
       \E t \in Arrived : t.pc = "emitMetricsUpdated"
  /\ Arrived = {} =>
       \A t \in Departed : t.pc \in CyclePcs => t.pc = "emitMetricsUpdated"

\* C21: every eligible cycle increments the iteration once, then emits one
\* EXECUTION_START carrying the new iteration number, then exactly one of
\* EXECUTION_COMPLETE or EXECUTION_FAILED followed by ERROR, then updates the
\* metrics exactly once (totalExecutions grows by one, however many attempts
\* were made), then emits one METRICS_UPDATED, and only then returns.
C21_CycleOrder == [](C21_Order) /\ [][C21_Step]_vars

\* A cycle that made three attempts, all failed, has emitted its four events
\* and counted one execution.
C21_Witness ==
  \E t \in Cycles :
    /\ t.pc = "emitMetricsUpdated" /\ ~t.success
    /\ Count(t.log, "attempt", "execute") = 3
    /\ metrics.totalExecutions = 1
    /\ t.iteration = 1

\* C22: an attempt whose unit-of-work has not settled when the timer fires
\* fails with the error "Execution timeout", which becomes lastError; the
\* attempt is followed by a backoff wait when another attempt is allowed and
\* by the terminal failure (status error, error hook) when not, and the
\* metrics wait for the end of the cycle.  When the timed-out unit-of-work
\* settles later, with a value or with an error, the status, the metrics,
\* lastError, the timers and the suspended calls stay as they are and no
\* event is emitted.
C22_Step ==
  /\ abandoned' = abandoned + 1 =>
       /\ obs'.step = "rejected"
       /\ obs'.error.isError /\ obs'.error.message = "Execution timeout"
       /\ context'.lastError = obs'.error
       /\ metrics' = metrics
       /\ \E t \in Departed, u \in Arrived :
            /\ t.pc = "execute"
            /\ u.lastError = obs'.error
            /\ IF t.attempt < config.maxRetries - 1
               THEN /\ u.pc = "delay"
                    /\ u.attempt = t.attempt
                    /\ status' = status
                    /\ u.log = Append(t.log, LogEntry("wait", "delay",
                                      config.retryDelayMs * (t.attempt + 1), undefined))
               ELSE /\ u.pc = "onError"
                    /\ status' = "error"
                    /\ u.log = Append(t.log, LogEntry("hook", "onError", 0, obs'.error))
  /\ abandoned' < abandoned =>
       /\ obs'.step = "late"
       /\ UNCHANGED <<status, config, context, metrics, intervalId, armed, tasks, durSum>>

C22_TimeoutIsAFailure == [][C22_Step]_timeoutVars

\* Both attempts of a cycle timed out, the cycle ended in error, and one of
\* the two units of work then rejected.
C22_Witness ==
  /\ obs.step = "late" /\ obs.ret = "rejects"
  /\ abandoned = 1
  /\ status = "error"
  /\ context.lastError = TimeoutError
  /\ metrics.failedExecutions = 1
  /\ tasks = EmptyBag

C23_Opening(kind) == IF kind = "startAll" THEN "manager:starting" ELSE "manager:stopping"

C23_Closing(kind) == IF kind = "startAll" THEN "manager:started" ELSE "manager:stopped"

C23_Step ==
  /\ \A c \in ArrivedCalls :
       (c.kind \in {"startAll", "stopAll"} /\ c.pc = "emitBefore") =>
         /\ mgrObs'.emitted =
              <<[type |-> C23_Opening(c.kind), agentId |-> "manager",
                 agentCount |-> Cardinality(DOMAIN agents)]>>
         /\ c.ops = <<>>
         /\ engines' = engines
  /\ \A c \in ArrivedCalls :
       (c.kind \in {"startAll", "stopAll"} /\ c.pc = "awaitAll") =>
         \E b \in DepartedCalls :
           /\ b.kind = c.kind
           /\ \/ b.pc = "emitBefore" /\ mgrObs'.emitted = <<>>
              \/ b.pc = "awaitAll" /\ DOMAIN b.ops = DOMAIN c.ops
  /\ \A c \in ArrivedCalls :
       (c.kind \in {"startAll", "stopAll"} /\ c.pc = "emitAfter") =>
         /\ \E b \in DepartedCalls : b.kind = c.kind /\ b.pc = "awaitAll" /\ b.ops = c.ops
         /\ \A e \in DOMAIN c.ops : c.ops[e].pc \in {"done", "failed"}
         /\ mgrObs'.emitted =
              <<[type |-> C23_Closing(c.kind), agentId |-> "manager",
                 agentCount |-> Cardinality(DOMAIN agents')]>>
         /\ engines' = engines
  /\ \A c \in DepartedCalls :
       (c.kind \in {"startAll", "stopAll"} /\ ArrivedCalls = {}) =>
         c.pc = "emitAfter" /\ mgrObs'.emitted = <<>>

\* C23: startAll emits manager:starting when it is called, before start is
\* called on any engine, and emits manager:started only once the start of
\* every engine of the broadcast has returned or rejected (a start returns
\* after its first cycle); stopAll does the same with manager:stopping and
\* manager:stopped; each of the four events carries the number of engines
\* registered when it is emitted; startAll and stopAll return after the
\* closing event.
C23_ManagerEventsBracket == [][C23_Step]_mgrVars

\* startAll over two registered engines has emitted manager:started with the
\* count 2, after both starts returned, each with a cycle counted.
C23_Witness ==
  /\ \E c \in CallSet :
       /\ c.kind = "startAll" /\ c.pc = "emitAfter"
       /\ DOMAIN c.ops = Engines
       /\ \A e \in Engines : c.ops[e].pc = "done" /\ engines[e].metrics.totalExecutions >= 1
  /\ mgrObs.step = "inside"
  /\ mgrObs.emitted = <<[type |-> "manager:started", agentId |-> "manager", agentCount |-> 2]>>

\* C24: in every reachable state at most one periodic trigger of the engine
\* is armed, whatever the interleaving of start(interval), stop, pause,
\* resume and cycle outcomes.
C24_AtMostOneTrigger == armed <= 1

\* The cycles that have begun and have not updated the metrics yet.
C25_Uncounted ==
  BagCardinality([t \in {u \in Cycles : u.pc # "emitMetricsUpdated"} |-> CopiesIn(t, tasks)])

C25_Counts ==
  /\ metrics.totalExecutions <= context.iteration
  /\ context.iteration = metrics.totalExecutions + C25_Uncounted
  /\ Cycles = {} => metrics.totalExecutions = context.iteration

C25_Step ==
  /\ context'.iteration >= context.iteration
  /\ context'.iteration = context.iteration +
       BagCardinality([t \in {u \in Arrived : u.pc = "emitExecutionStart"}
                         |-> CopiesIn(t, tasks') - CopiesIn(t, tasks)])
  /\ (obs'.step = "call" /\ obs'.kind \in {"start", "stop"}) =>
       context'.iteration = context.iteration

\* C25: the iteration of an engine never decreases (start and stop leave
\* it), it grows by one exactly when a cycle begins, totalExecutions is at
\* most the iteration in every reachable state, and the two are equal
\* whenever no cycle of the engine is in flight.
C25_IterationCountsCycles == [](C25_Counts) /\ [][C25_Step]_vars

\* After a stop and a second start, two cycles have begun and both are
\* counted, none in flight.
C25_Witness ==
  /\ context.iteration = 2 /\ metrics.totalExecutions = 2
  /\ context.startedAt = 2
  /\ Cycles = {}
  /\ metrics.failedExecutions = 1

\* Nothing of a cycle or of a start() is left: every cycle begun has updated
\* the metrics, emitted METRICS_UPDATED and returned, and with it the start()
\* that awaited it.
C26_AllEnded ==
  /\ \A t \in TaskSet : t.kind \notin {"start", "tick"}
  /\ metrics.totalExecutions = context.iteration

\* C26: when timers fire and the emissions and hooks return, every cycle that
\* begins ends with its metrics update and its METRICS_UPDATED emission, and
\* every start() returns, even if no unit-of-work ever settles: whatever is
\* in flight, a state with no cycle and no start() in flight and every cycle
\* counted is reached again.
C26_EveryCycleEnds == []<>C26_AllEnded

\* A start() has returned after a cycle both of whose attempts timed out,
\* and neither unit-of-work has settled.
C26_Witness ==
  /\ obs = Obs("return", "start", FALSE, "ok", TimeoutError)
  /\ abandoned = MaxTimeouts
  /\ metrics.totalExecutions = 1 /\ metrics.failedExecutions = 1
  /\ C26_AllEnded

====
